---- MODULE Spec2Model ----
(***************************************************************************)
(* The Desktop-Entry lexer of lsapp (src/src/parser/tokens.rs) with its    *)
(* Position/Span arithmetic (src/src/parser/span.rs), and the tree builder *)
(* begun in src/src/parser/mod.rs and tree.rs.                             *)
(*                                                                         *)
(* A character is a one-character string, a text a sequence of characters. *)
(* One action is one iteration of the loop of Tokens::next_token: the arm  *)
(* of its match that the peeked character and the lexer state select,      *)
(* together with every helper that arm calls (skip_whitespace,             *)
(* skip_comment, advance_line, read_text), each computed as the code       *)
(* computes it.                                                            *)
(***************************************************************************)
EXTENDS Integers, Sequences, FiniteSets, TLC

VARIABLES input, data, state, buf, ret, tokens, done, sp, failure,
          parsed, value

\* sp is a Span value handled through the operations of span.rs, failure
\* says that one of them has panicked
spanvars == <<sp, failure>>

\* parsed is what Parser::parse returned, value the value match_entry built
treevars == <<parsed, value>>

vars == <<input, data, state, buf, ret, tokens, done, sp, failure, parsed,
          value>>

(***************************************************************************)
(* Bounds of the model.                                                    *)
(***************************************************************************)
MaxLen == 3

\* The token history keeps the first MaxTok tokens of a run (no run that
\* consumes a character per token returns more); the lexer itself is never
\* stopped by it.
MaxTok == MaxLen + 3

\* The longest text after the beginning of an input of ShortInputs.
MaxShort == 2

\* The largest col and idx of the positions handed to the Span operations.
MaxCol == 2

(***************************************************************************)
(* Characters.                                                             *)
(***************************************************************************)
\* Option<char>::None, as returned by next() and peek() at the end of input
None == "None"

\* `0 as char`, the argument of an Argument token at the end of input
NUL == "NUL"

Blank == {" ", "\t"}

\* The character U+00E9 (e with acute accent), one char of two bytes in
\* UTF-8, written by a name
EAcute == "U+00E9"

\* The characters of the model's inputs that char::is_alphabetic accepts
Alphabetic == {"E", "x", "e", "c", "f", EAcute}

\* char::len_utf8 of the characters of the model's inputs
len_utf8(c) == IF c = EAcute THEN 2 ELSE 1

StrExec == <<"E", "x", "e", "c">>

Alphabet == {"[", "]", "=", ";", "%", "#", "\n", "\r", " ", "\t", "f"}

\* The inputs are a fixed beginning followed by any text of at most MaxLen
\* characters of Alphabet.
Prefixes ==
    {<<>>, <<"f">>, <<"f", "=">>, StrExec \o <<"=">>, StrExec \o <<"=", "f">>}

Bodies == UNION {[1..n -> Alphabet] : n \in 0..MaxLen}

Inputs == {p \o b : p \in Prefixes, b \in Bodies}

\* The inputs of the runs that are drained to the end under fairness.
ShortInputs ==
    {p \o b : p \in {<<>>, StrExec \o <<"=">>},
              b \in UNION {[1..n -> Alphabet] : n \in 0..MaxShort}}

\* The inputs with a character of more than one byte.
Utf8Inputs ==
    {p \o b : p \in {<<>>, <<"f", "=">>, StrExec \o <<"=">>},
              b \in UNION {[1..n -> Alphabet \cup {EAcute}] :
                               n \in 0..MaxShort}}

\* The inputs with a locale qualifier between the key and the `=`.
LocaleInputs ==
    {p \o b : p \in {StrExec \o <<"[", "f", "]", "=">>,
                      <<"f", "[">> \o StrExec \o <<"]", "=">>},
              b \in UNION {[1..n -> Alphabet] : n \in 0..MaxShort}}

(***************************************************************************)
(* Position and Span (span.rs).                                            *)
(***************************************************************************)
Position_new == [row |-> 0, col |-> 0, idx |-> 0]

\* Position += n and Position + n
PosAdd(p, n) == [row |-> p.row, col |-> p.col + n, idx |-> p.idx + n]

\* Position -= n; the u32 subtraction underflows when n exceeds col or idx
PosSubUnderflows(p, n) == p.col < n \/ p.idx < n

\* a slip: `self.idx -= other` is missing
PosSub_ColOnly(p, n) ==
    IF PosSubUnderflows(p, n) THEN p
    ELSE [row |-> p.row, col |-> p.col - n, idx |-> p.idx]

PosSub(p, n) ==
    IF PosSubUnderflows(p, n) THEN p
    ELSE [row |-> p.row, col |-> p.col - n, idx |-> p.idx - n]

\* a slip: `self.row += 1` is missing
newline_KeepsRow(p) == [row |-> p.row, col |-> 0, idx |-> p.idx]

newline(p) == [row |-> p.row + 1, col |-> 0, idx |-> p.idx]

\* Ord for Position: by row, then by col
PosLeq(p, q) == p.row < q.row \/ (p.row = q.row /\ p.col <= q.col)

Span_new(s, e) == [start |-> s, end |-> e]

Span_start(p) == [start |-> p, end |-> p]

(***************************************************************************)
(* Tokens.                                                                 *)
(***************************************************************************)
Token_new_with_span(kind, text, arg, span) ==
    [kind |-> kind, text |-> text, arg |-> arg, span |-> span]

\* Token::new(kind, pos): the span is pos .. pos + 1
Token_new(kind, arg, pos) ==
    Token_new_with_span(kind, <<>>, arg, Span_new(pos, PosAdd(pos, 1)))

(***************************************************************************)
(* TokenData: the character source with its pushback stack.  di is the     *)
(* number of characters taken from the underlying iterator, back the       *)
(* pushback stack (top last), fault records an underflow of pos -= 1,      *)
(* deep a push onto a stack that was not empty.                            *)
(***************************************************************************)
TokenData_new ==
    [di |-> 0, back |-> <<>>, pos |-> Position_new, fault |-> FALSE,
     deep |-> FALSE]

TokenData_peek(d) ==
    IF Len(d.back) > 0 THEN d.back[Len(d.back)]
    ELSE IF d.di < Len(input) THEN input[d.di + 1]
    ELSE None

\* the state of the source after next(); next() returns TokenData_peek(d)
TokenData_next(d) ==
    IF Len(d.back) > 0
    THEN [d EXCEPT !.back = SubSeq(d.back, 1, Len(d.back) - 1),
                   !.pos = PosAdd(d.pos, 1)]
    ELSE IF d.di < Len(input)
    THEN [d EXCEPT !.di = d.di + 1, !.pos = PosAdd(d.pos, 1)]
    ELSE d

\* a slip: push forgets `self.pos -= 1`
TokenData_push_KeepsPos(d, c) == [d EXCEPT !.back = Append(d.back, c)]

TokenData_push(d, c) ==
    [d EXCEPT !.pos = PosSub(d.pos, 1),
              !.fault = d.fault \/ PosSubUnderflows(d.pos, 1),
              !.deep = d.deep \/ Len(d.back) >= 1,
              !.back = Append(d.back, c)]

(***************************************************************************)
(* The helpers of Tokens.  Each takes the character source d (and the      *)
(* lexer state st where the code reads or writes it) and yields what the   *)
(* call leaves behind.                                                     *)
(***************************************************************************)
\* a slip: the character that ends the blanks is not pushed back
RECURSIVE skip_whitespace_NoPush(_)
skip_whitespace_NoPush(d) ==
    LET c == TokenData_peek(d)
        d1 == TokenData_next(d)
    IN  IF c \in Blank THEN skip_whitespace_NoPush(d1) ELSE d1

RECURSIVE skip_whitespace(_)
skip_whitespace(d) ==
    LET c == TokenData_peek(d)
        d1 == TokenData_next(d)
    IN  IF c \in Blank THEN skip_whitespace(d1)
        ELSE IF c = None THEN d1
        ELSE TokenData_push(d1, c)

\* a slip: the character behind a lone `\r` is pushed back after newline()
advance_line_PushLate(d, st) ==
    LET c1 == TokenData_peek(d)
        d1 == TokenData_next(d)
        c2 == TokenData_peek(d1)
        d2 == TokenData_next(d1)
        reset(dd) == [dd EXCEPT !.pos = newline(dd.pos)]
    IN  IF c1 = "\n" THEN [data |-> reset(d1), state |-> "ReadKey"]
        ELSE IF c1 = "\r"
        THEN IF c2 = "\n" THEN [data |-> reset(d2), state |-> "ReadKey"]
             ELSE IF c2 # None
             THEN [data |-> TokenData_push(reset(d2), c2), state |-> "ReadKey"]
             ELSE [data |-> reset(d2), state |-> "ReadKey"]
        ELSE IF c1 # None
        THEN [data |-> TokenData_push(d1, c1), state |-> st]
        ELSE [data |-> d1, state |-> st]

advance_line(d, st) ==
    LET c1 == TokenData_peek(d)
        d1 == TokenData_next(d)
        c2 == TokenData_peek(d1)
        d2 == TokenData_next(d1)
        reset(dd) == [data |-> [dd EXCEPT !.pos = newline(dd.pos)],
                      state |-> "ReadKey"]
    IN  IF c1 = "\n" THEN reset(d1)
        ELSE IF c1 = "\r"
        THEN IF c2 = "\n" THEN reset(d2)
             ELSE IF c2 # None THEN reset(TokenData_push(d2, c2))
             ELSE reset(d2)
        ELSE IF c1 # None
        THEN [data |-> TokenData_push(d1, c1), state |-> st]
        ELSE [data |-> d1, state |-> st]

\* a slip: the line terminator is not pushed back before advance_line
RECURSIVE skip_comment_NoPush(_, _)
skip_comment_NoPush(d, st) ==
    LET c == TokenData_peek(d)
        d1 == TokenData_next(d)
    IN  IF c = "\n" \/ c = "\r" THEN advance_line(d1, st)
        ELSE IF c = None THEN [data |-> d1, state |-> st]
        ELSE skip_comment_NoPush(d1, st)

RECURSIVE skip_comment(_, _)
skip_comment(d, st) ==
    LET c == TokenData_peek(d)
        d1 == TokenData_next(d)
    IN  IF c = "\n" \/ c = "\r" THEN advance_line(TokenData_push(d1, c), st)
        ELSE IF c = None THEN [data |-> d1, state |-> st]
        ELSE skip_comment(d1, st)

\* a slip: the arm that ends a ReadValue run at `;` is missing
read_text_breaks_NoSemicolon(c, st) ==
    \/ c = "[" /\ st = "ReadKey"
    \/ c = "]" /\ st = "ReadKey"
    \/ c = "]" /\ st = "ReadHeader"
    \/ c = "=" /\ st = "ReadKey"
    \/ c \in {"\n", "\r", "#"}

\* a slip: `]` ends a run in every state
read_text_breaks_AnyBracket(c, st) ==
    \/ c = "[" /\ st = "ReadKey"
    \/ c = "]"
    \/ c = "=" /\ st = "ReadKey"
    \/ c = ";" /\ st = "ReadValue"
    \/ c \in {"\n", "\r", "#"}

\* the arms of the match of read_text that end the run
read_text_breaks(c, st) ==
    \/ c = "[" /\ st = "ReadKey"
    \/ c = "]" /\ st = "ReadKey"
    \/ c = "]" /\ st = "ReadHeader"
    \/ c = "=" /\ st = "ReadKey"
    \/ c = ";" /\ st = "ReadValue"
    \/ c \in {"\n", "\r", "#"}

\* a slip: the test on the character after a `%` never succeeds
is_placeholder_Never(arg) == FALSE

\* the test `Some(c) if c.is_alphabetic()` on the character after a `%`
is_placeholder(arg) == arg # None /\ arg \in Alphabetic

\* a slip: the character behind the `%` is taken with next(), and then
\* pushed back together with the `%`
RECURSIVE read_text_loop_NextArg(_, _, _, _)
read_text_loop_NextArg(d, st, b, test_arg) ==
    LET dn == TokenData_next(d)
        arg == TokenData_peek(dn)
        stop == test_arg /\ is_placeholder(arg)
        d1 == IF test_arg THEN dn ELSE d
        b1 == IF test_arg THEN Append(b, "%") ELSE b
        c == TokenData_peek(d1)
    IN  IF stop
        THEN [data |-> TokenData_push(
                           TokenData_push(TokenData_next(dn), arg), "%"),
              buf |-> b]
        ELSE IF read_text_breaks(c, st) THEN [data |-> d1, buf |-> b1]
        ELSE IF c = "%" /\ st = "ReadExec"
        THEN read_text_loop_NextArg(d1, st, b1, TRUE)
        ELSE IF c = None THEN [data |-> d1, buf |-> b1]
        ELSE read_text_loop_NextArg(TokenData_next(d1), st, Append(b1, c),
                                    FALSE)

\* one pass of the loop of read_text, b the buffer so far
RECURSIVE read_text_loop(_, _, _, _)
read_text_loop(d, st, b, test_arg) ==
    LET dn == TokenData_next(d)
        arg == TokenData_peek(dn)
        stop == test_arg /\ is_placeholder(arg)
        d1 == IF test_arg THEN dn ELSE d
        b1 == IF test_arg THEN Append(b, "%") ELSE b
        c == TokenData_peek(d1)
    IN  IF stop THEN [data |-> TokenData_push(dn, "%"), buf |-> b]
        ELSE IF read_text_breaks(c, st) THEN [data |-> d1, buf |-> b1]
        ELSE IF c = "%" /\ st = "ReadExec" THEN read_text_loop(d1, st, b1, TRUE)
        ELSE IF c = None THEN [data |-> d1, buf |-> b1]
        ELSE read_text_loop(TokenData_next(d1), st, Append(b1, c), FALSE)

\* read_text: clears the buffer, then runs the loop
read_text(d, st) == read_text_loop(d, st, <<>>, FALSE)

(***************************************************************************)
(* The lexer.  ret is what the last iteration of next_token's loop did:    *)
(* the token it returned, kind "None" when it returned None, kind          *)
(* "Continue" when it only skipped and looped.  tokens is the sequence of  *)
(* tokens returned so far (its first MaxTok), done says that next_token    *)
(* has returned None.                                                      *)
(***************************************************************************)
NoSpan == Span_new(Position_new, Position_new)

Continue == Token_new_with_span("Continue", <<>>, None, NoSpan)

ReturnNone == Token_new_with_span("None", <<>>, None, NoSpan)

Emit(tok) == IF Len(tokens) < MaxTok THEN Append(tokens, tok) ELSE tokens

\* Parser::parse has not been called; no value has been built
NotCalled == [kind |-> "NotCalled", span |-> NoSpan]

NoValue == [kind |-> "NoValue", text |-> <<>>, parts |-> <<>>, items |-> <<>>]

\* Tokens::new over a text of the set S
InitWith(S) ==
    /\ input \in S
    /\ data = TokenData_new
    /\ state = "ReadKey"
    /\ buf = <<>>
    /\ ret = Continue
    /\ tokens = <<>>
    /\ done = FALSE
    /\ sp = Span_start(Position_new)
    /\ failure = FALSE
    /\ parsed = NotCalled
    /\ value = NoValue

Init == InitWith(Inputs)

InitShort == InitWith(ShortInputs)

\* the character the match of next_token looks at
Peeked == TokenData_peek(data)

StepWhitespace ==
    /\ Peeked \in Blank /\ state # "ReadExec"
    /\ data' = skip_whitespace(data)
    /\ ret' = Continue
    /\ UNCHANGED <<spanvars, treevars, input, state, buf, tokens, done>>

StepComment ==
    /\ Peeked = "#"
    /\ LET r == skip_comment(data, state)
       IN  data' = r.data /\ state' = r.state
    /\ ret' = Continue
    /\ UNCHANGED <<spanvars, treevars, input, buf, tokens, done>>

StepAdvanceLine ==
    /\ Peeked \in {"\n", "\r"}
    /\ LET r == advance_line(data, state)
       IN  data' = r.data /\ state' = r.state
    /\ ret' = Continue
    /\ UNCHANGED <<spanvars, treevars, input, buf, tokens, done>>

\* a slip: the arm forgets to assign the state
Structural_KeepsState(kind, next_state) ==
    LET d1 == TokenData_next(data)
        tok == Token_new(kind, None, d1.pos)
    IN  /\ state' = state
        /\ data' = d1
        /\ ret' = tok
        /\ tokens' = Emit(tok)
        /\ UNCHANGED <<spanvars, treevars, input, buf, done>>

\* the arms that consume one character and return a one-character token
Structural(kind, next_state) ==
    LET d1 == TokenData_next(data)
        tok == Token_new(kind, None, d1.pos)
    IN  /\ state' = next_state
        /\ data' = d1
        /\ ret' = tok
        /\ tokens' = Emit(tok)
        /\ UNCHANGED <<spanvars, treevars, input, buf, done>>

StepLeftBracket ==
    /\ Peeked = "[" /\ state = "ReadKey"
    /\ Structural("LeftBracket", "ReadHeader")

StepRightBracket ==
    /\ Peeked = "]" /\ state = "ReadHeader"
    /\ Structural("RightBracket", "ReadKey")

\* a slip: the first assignment of the Equal arm kept, the second lost
EqualTarget_AlwaysValue == "ReadValue"

\* the state the Equal arm moves to
EqualTarget == IF buf = StrExec THEN "ReadExec" ELSE "ReadValue"

StepEqual ==
    /\ Peeked = "=" /\ state = "ReadKey"
    /\ Structural("Equal", EqualTarget)

StepSemicolon ==
    /\ Peeked = ";" /\ state = "ReadValue"
    /\ Structural("Semicolon", "ReadValue")

\* the character the Argument arm puts into its token
ArgumentChar(arg) == IF arg # None THEN arg ELSE NUL

StepArgument ==
    /\ Peeked = "%" /\ state = "ReadExec"
    /\ LET d1 == TokenData_next(data)
           arg == TokenData_peek(d1)
           d2 == TokenData_next(d1)
           tok == Token_new("Argument", ArgumentChar(arg), d2.pos)
       IN  /\ data' = d2
           /\ ret' = tok
           /\ tokens' = Emit(tok)
    /\ UNCHANGED <<spanvars, treevars, input, state, buf, done>>

StepNone ==
    /\ Peeked = None
    /\ ret' = ReturnNone
    /\ done' = TRUE
    /\ UNCHANGED <<spanvars, treevars, input, data, state, buf, tokens>>

\* the guards of the arms above the wildcard arm
OtherArm ==
    \/ Peeked \in Blank /\ state # "ReadExec"
    \/ Peeked \in {"#", "\n", "\r"}
    \/ Peeked = "[" /\ state = "ReadKey"
    \/ Peeked = "]" /\ state = "ReadHeader"
    \/ Peeked = "=" /\ state = "ReadKey"
    \/ Peeked = ";" /\ state = "ReadValue"
    \/ Peeked = "%" /\ state = "ReadExec"
    \/ Peeked = None

StepText ==
    /\ ~OtherArm
    /\ LET start == data.pos
           r == read_text(data, state)
           tok == Token_new_with_span("Text", r.buf, None,
                                      Span_new(start, r.data.pos))
       IN  /\ data' = r.data
           /\ buf' = r.buf
           /\ ret' = tok
           /\ tokens' = Emit(tok)
    /\ UNCHANGED <<spanvars, treevars, input, state, done>>

Next ==
    \/ StepWhitespace
    \/ StepComment
    \/ StepAdvanceLine
    \/ StepLeftBracket
    \/ StepRightBracket
    \/ StepEqual
    \/ StepSemicolon
    \/ StepArgument
    \/ StepNone
    \/ StepText

Spec == Init /\ [][Next]_vars

\* the lexer over the entries with a locale qualifier
LocaleSpec == InitWith(LocaleInputs) /\ [][Next]_vars

\* the lexer over the texts with a character of more than one byte
Utf8Spec == InitWith(Utf8Inputs) /\ [][Next]_vars

\* next_token is called until it returns None: the iterator is drained
FairSpec == InitShort /\ [][Next]_vars /\ WF_vars(Next)

(***************************************************************************)
(* The operations of Span (span.rs), applied one after another to the      *)
(* value sp.  A u32 that has wrapped below 0 is written as the negative    *)
(* number it is congruent to (2^32 - k as -k) and compared as unsigned.    *)
(* A panic sets failure and ends the run.                                  *)
(***************************************************************************)
\* a < b for two u32
U32Less(a, b) == IF (a < 0) = (b < 0) THEN a < b ELSE b < 0

\* p > q as the derived PartialOrd of Position compares: row, col, idx
PosGreater(p, q) ==
    \/ U32Less(q.row, p.row)
    \/ p.row = q.row /\ U32Less(q.col, p.col)
    \/ p.row = q.row /\ p.col = q.col /\ U32Less(q.idx, p.idx)

\* Position - n in a build without overflow checks
PosSubWrapping(p, n) == [row |-> p.row, col |-> p.col - n, idx |-> p.idx - n]

\* the positions the operations are called with
Positions == [row : 0..1, col : 0..MaxCol, idx : 0..MaxCol]

Panic == failure' = TRUE /\ UNCHANGED sp

SpanNew ==
    /\ ~failure
    /\ \E s \in Positions, e \in Positions : sp' = Span_new(s, e)
    /\ UNCHANGED <<failure, treevars, input, data, state, buf, ret, tokens,
                   done>>

SpanStart ==
    /\ ~failure
    /\ \E p \in Positions : sp' = Span_start(p)
    /\ UNCHANGED <<failure, treevars, input, data, state, buf, ret, tokens,
                   done>>

\* span + n and span += n, for an end that stays within 0..MaxCol
SpanAdd ==
    /\ ~failure
    /\ \E n \in 0..MaxCol :
          /\ sp.end.col >= 0 /\ sp.end.col + n <= MaxCol
          /\ sp.end.idx >= 0 /\ sp.end.idx + n <= MaxCol
          /\ sp' = [sp EXCEPT !.end = PosAdd(sp.end, n)]
    /\ UNCHANGED <<failure, treevars, input, data, state, buf, ret, tokens,
                   done>>

\* span - n and span -= n: the subtraction of a u32 below 0 panics in a
\* build with overflow checks and wraps in one without; then the test
SpanSub ==
    /\ ~failure
    /\ sp.end.col >= 0 /\ sp.end.idx >= 0
    /\ \E n \in 0..MaxCol :
          LET res == [sp EXCEPT !.end = PosSubWrapping(sp.end, n)]
          IN  \/ PosSubUnderflows(sp.end, n) /\ Panic
              \/ IF PosGreater(res.start, res.end) THEN Panic
                 ELSE sp' = res /\ UNCHANGED failure
    /\ UNCHANGED <<treevars, input, data, state, buf, ret, tokens, done>>

SpanFinish ==
    /\ ~failure
    /\ \E e \in Positions :
          IF PosGreater(sp.start, e) THEN Panic
          ELSE sp' = [sp EXCEPT !.end = e] /\ UNCHANGED failure
    /\ UNCHANGED <<treevars, input, data, state, buf, ret, tokens, done>>

SpanNext == SpanNew \/ SpanStart \/ SpanAdd \/ SpanSub \/ SpanFinish

\* a program that builds Spans and applies their operations in any order
SpanSpec == InitWith({<<>>}) /\ [][SpanNext]_vars

(***************************************************************************)
(* The tree builder (mod.rs, tree.rs).  Parser::parse and match_heading    *)
(* have empty bodies; match_entry hands over to a match_token that the     *)
(* sources do not hold, so what it builds follows section 4.3 of the       *)
(* specification, with the values of tree.rs.                              *)
(***************************************************************************)
\* ValuePart (tree.rs)
Literal(s) == [part |-> "Literal", text |-> s, arg |-> None]

Parameter(c) == [part |-> "Parameter", text |-> <<>>, arg |-> c]

\* ValueKind (tree.rs)
Simple(s) == [kind |-> "Simple", text |-> s, parts |-> <<>>, items |-> <<>>]

Exec(ps) == [kind |-> "Exec", text |-> <<>>, parts |-> ps, items |-> <<>>]

\* the List of the specification's Value, which ValueKind does not have
List(segs) == [kind |-> "List", text |-> <<>>, parts |-> <<>>, items |-> segs]

\* the tokens a value is made of
ValueTokens == {"Text", "Semicolon", "Argument"}

\* ts[i] is a Text that introduces a key: an Equal or a LeftBracket follows
KeyIntroducing(ts, i) ==
    /\ ts[i].kind = "Text"
    /\ i < Len(ts) /\ ts[i + 1].kind \in {"Equal", "LeftBracket"}

\* the value run of the entry Text(key), Equal at the head of ts: the
\* tokens behind the Equal up to the next key or the end
ValueRun(ts) ==
    LET S == {i \in 3..Len(ts) :
                 ts[i].kind \notin ValueTokens \/ KeyIntroducing(ts, i)}
        stop == IF S = {} THEN Len(ts) + 1
                ELSE CHOOSE i \in S : \A j \in S : i <= j
    IN  SubSeq(ts, 3, stop - 1)

\* the concatenation of the texts of the Text tokens of a run
RECURSIVE ConcatText(_)
ConcatText(run) ==
    IF run = <<>> THEN <<>>
    ELSE (IF run[1].kind = "Text" THEN run[1].text ELSE <<>>)
             \o ConcatText(Tail(run))

\* a slip: the parts are collected in reverse
RECURSIVE ExecParts_Reversed(_)
ExecParts_Reversed(run) ==
    IF run = <<>> THEN <<>>
    ELSE ExecParts_Reversed(Tail(run)) \o
             (IF run[1].kind = "Text" THEN <<Literal(run[1].text)>>
              ELSE IF run[1].kind = "Argument" THEN <<Parameter(run[1].arg)>>
              ELSE <<>>)

\* policy 1: Text to Literal and Argument to Parameter, in order
RECURSIVE ExecParts(_)
ExecParts(run) ==
    IF run = <<>> THEN <<>>
    ELSE (IF run[1].kind = "Text" THEN <<Literal(run[1].text)>>
          ELSE IF run[1].kind = "Argument" THEN <<Parameter(run[1].arg)>>
          ELSE <<>>) \o ExecParts(Tail(run))

\* policy 2: the segments between the Semicolons; cur is the segment being
\* collected, dropped at the end when it is empty behind a Semicolon
RECURSIVE Segments(_, _, _)
Segments(run, cur, after_semicolon) ==
    IF run = <<>>
    THEN IF cur = <<>> /\ after_semicolon THEN <<>> ELSE <<cur>>
    ELSE IF run[1].kind = "Semicolon"
    THEN <<cur>> \o Segments(Tail(run), <<>>, TRUE)
    ELSE IF run[1].kind = "Text"
    THEN Segments(Tail(run), cur \o run[1].text, after_semicolon)
    ELSE Segments(Tail(run), cur, after_semicolon)

HasSemicolonToken(run) == \E i \in 1..Len(run) : run[i].kind = "Semicolon"

\* the value classification policy
Classify(key, run) ==
    IF key = StrExec THEN Exec(ExecParts(run))
    ELSE IF HasSemicolonToken(run) THEN List(Segments(run, <<>>, FALSE))
    ELSE Simple(ConcatText(run))

\* the values of ValueKind a builder can return for the value v of the
\* policy: v itself when ValueKind has its variant, else either variant
Representable(v, run) ==
    IF v.kind \in {"Simple", "Exec"} THEN {v}
    ELSE {Simple(ConcatText(run)), Exec(ExecParts(run))}

\* what the empty block of Parser::parse evaluates to
Unit == [kind |-> "Unit", span |-> NoSpan]

\* Parser::parse, called once the tokens of the text are known: the body
\* is empty, nothing is read and nothing built
Parser_parse ==
    /\ done /\ parsed = NotCalled
    /\ parsed' = Unit
    /\ UNCHANGED <<spanvars, value, input, data, state, buf, ret, tokens, done>>

\* match_entry on the entry at the head of the token sequence
match_entry ==
    /\ done /\ value = NoValue
    /\ Len(tokens) >= 2
    /\ tokens[1].kind = "Text" /\ tokens[2].kind = "Equal"
    /\ LET run == ValueRun(tokens)
       IN  value' \in Representable(Classify(tokens[1].text, run), run)
    /\ UNCHANGED <<spanvars, parsed, input, data, state, buf, ret, tokens, done>>

ParserNext == Next \/ Parser_parse \/ match_entry

\* the lexer drained, and the tree builder's operations on its tokens
ParserSpec == Init /\ [][ParserNext]_vars

(***************************************************************************)
(* What a step consumed.  Consumed is the number of characters of input    *)
(* the lexer has consumed net of pushbacks; the characters a step consumes *)
(* are input[Consumed + 1 .. Consumed'].                                   *)
(***************************************************************************)
ConsumedOf(d) == d.di - Len(d.back)

Consumed == ConsumedOf(data)

(***************************************************************************)
(* C1.  For every finite input, next_token called again and again on a     *)
(* fresh lexer eventually returns None: the token sequence is finite.      *)
(***************************************************************************)
C1_TokenSequenceFinite == <>done

(***************************************************************************)
(* C2.  Whenever a step of the lexer consumes a line break character, in   *)
(* whatever state, it returns no token and leaves the lexer in ReadKey.    *)
(***************************************************************************)
IsLineBreak(c) == c \in {"\n", "\r"}

\* the step from the unprimed to the primed state consumed a line break
ConsumesLineBreak == \E i \in (Consumed + 1)..Consumed' : IsLineBreak(input[i])

C2_LineBreakResetsState ==
    [][ConsumesLineBreak => (ret'.kind = "Continue" /\ state' = "ReadKey")]_vars

(***************************************************************************)
(* C3.  At every point of the scan, pos.row is the number of line breaks   *)
(* in the consumed prefix (a `\r\n` pair counts once, a lone `\r` or       *)
(* `\n` once) and pos.col the number of characters consumed since the      *)
(* last line break.                                                        *)
(***************************************************************************)
\* input[i] ends a line break: a `\n`, or a `\r` that no `\n` follows
EndsLineBreak(i) ==
    \/ input[i] = "\n"
    \/ input[i] = "\r" /\ (i = Len(input) \/ input[i + 1] # "\n")

LineBreaksConsumed == Cardinality({i \in 1..Consumed : EndsLineBreak(i)})

\* the index of the last line break character consumed, 0 when there is none
LastLineBreak ==
    LET S == {i \in 1..Consumed : IsLineBreak(input[i])}
    IN  IF S = {} THEN 0 ELSE CHOOSE i \in S : \A j \in S : j <= i

C3_PositionCountsLines ==
    /\ data.pos.row = LineBreaksConsumed
    /\ data.pos.col = Consumed - LastLineBreak

(***************************************************************************)
(* C4.  When `=` is the next character in ReadKey, the step returns        *)
(* exactly one Equal token and the state becomes ReadExec if the text      *)
(* scanned just before (the text of the most recent Text token) is         *)
(* "Exec", otherwise ReadValue.  In ReadHeader, ReadValue and ReadExec an  *)
(* `=` never yields Equal and never changes the state.                     *)
(***************************************************************************)
\* the text of the last Text token of the token sequence ts, <<>> without one
RECURSIVE LastTextOf(_)
LastTextOf(ts) ==
    IF ts = <<>> THEN <<>>
    ELSE IF ts[Len(ts)].kind = "Text" THEN ts[Len(ts)].text
    ELSE LastTextOf(SubSeq(ts, 1, Len(ts) - 1))

\* the step returned exactly one token, of kind k, for one character
ReturnsOne(k) ==
    /\ ret'.kind = k
    /\ tokens' = Append(tokens, ret')
    /\ Consumed' = Consumed + 1

C4_EqualInReadKey ==
    (Peeked = "=" /\ state = "ReadKey") =>
        /\ ReturnsOne("Equal")
        /\ state' = IF LastTextOf(tokens) = StrExec THEN "ReadExec"
                                                    ELSE "ReadValue"

C4_EqualElsewhere ==
    /\ (Peeked = "=" /\ state # "ReadKey") =>
            (ret'.kind = "Text" /\ ret'.text[1] = "=" /\ state' = state)
    /\ ret'.kind = "Equal" => (Peeked = "=" /\ state = "ReadKey")
    /\ ret'.kind = "Text" => state' = state

C4_EqualTransition == [][C4_EqualInReadKey /\ C4_EqualElsewhere]_vars

C4_Witness ==
    /\ ret.kind = "Equal" /\ state = "ReadExec"
    /\ LastTextOf(tokens) = StrExec

(***************************************************************************)
(* C5.  In an Exec value `%%` is a literal percent that ends up in a Text  *)
(* token and never produces an Argument token; Argument(c) is returned     *)
(* only for a `%` followed by a letter c.  (At the end of input the        *)
(* Argument arm returns Argument(NUL); that case is left aside here.)      *)
(***************************************************************************)
\* the number of `%` that stand directly before input[i]
RECURSIVE PercentsBefore(_)
PercentsBefore(i) ==
    IF i > 1 /\ input[i - 1] = "%" THEN 1 + PercentsBefore(i - 1) ELSE 0

\* input[i] is a `%` that an escape `%%` before it has not used up
IntroducerAt(i) == input[i] = "%" /\ PercentsBefore(i) % 2 = 0

\* the index of the `%` of the Argument token just returned
ArgumentPercent == IF ret.arg = NUL THEN Consumed ELSE Consumed - 1

C5_PercentPercentIsText ==
    ret.kind = "Argument" =>
        /\ ret.arg \in Alphabetic \cup {NUL}
        /\ IntroducerAt(ArgumentPercent)

(***************************************************************************)
(* C6.  Inside a ReadExec text run a `%` followed by a non-alphabetic      *)
(* character is consumed into the text together with that character,       *)
(* which is not examined again as a placeholder introducer: the run goes   *)
(* on behind the pair, so `a%%f` is the one token Text("a%%f").  (A line   *)
(* break or `#` after the `%` still ends the run, as the spec says of      *)
(* every run.)                                                             *)
(***************************************************************************)
RunEnders == {"\n", "\r", "#"}

\* the index of the last character of the ReadExec text run that starts at
\* input[i], scanned as the claim describes (i - 1 for an empty run)
RECURSIVE ExecRunEnd(_)
ExecRunEnd(i) ==
    IF i > Len(input) \/ input[i] \in RunEnders THEN i - 1
    ELSE IF input[i] # "%" THEN ExecRunEnd(i + 1)
    ELSE IF i = Len(input) THEN i
    ELSE IF input[i + 1] \in Alphabetic THEN i - 1
    ELSE IF input[i + 1] \in RunEnders THEN i
    ELSE ExecRunEnd(i + 2)

C6_PercentPairIsLiteral ==
    (ret.kind = "Text" /\ state = "ReadExec") =>
        Consumed = ExecRunEnd(Consumed - Len(ret.text) + 1)

(***************************************************************************)
(* C7.  In ReadExec, a text run that reaches a `%` directly followed by a  *)
(* letter c ends before that `%`, which is pushed back; the next step      *)
(* returns Argument(c); the state is ReadExec throughout, and the Text     *)
(* and the Argument token together cover the consumed characters in input  *)
(* order, none lost or twice.                                              *)
(***************************************************************************)
\* input[j] is a `%` with a letter directly behind it
PlaceholderAt(j) ==
    j < Len(input) /\ input[j] = "%" /\ input[j + 1] \in Alphabetic

\* the run that starts at input[i] reaches a placeholder `%` at input[j]
\* before anything that ends the run
RunReaches(i, j) ==
    /\ i < j /\ PlaceholderAt(j)
    /\ \A k \in i..(j - 1) : input[k] \notin RunEnders /\ ~PlaceholderAt(k)

\* a Text step in ReadExec: the run stops before the placeholder it reaches
C7_RunEndsBeforePercent ==
    (state = "ReadExec" /\ ret'.kind = "Text") =>
        \A j \in 1..Len(input) :
            RunReaches(Consumed + 1, j) =>
                /\ Consumed' = j - 1
                /\ ret'.text = SubSeq(input, Consumed + 1, j - 1)
                /\ data'.back = <<"%">>
                /\ state' = "ReadExec"

\* the step after a run that stopped for a placeholder
C7_ThenArgument ==
    (state = "ReadExec" /\ ret.kind = "Text" /\ data.back = <<"%">>) =>
        /\ ret'.kind = "Argument"
        /\ ret'.arg = input[Consumed + 2]
        /\ ret'.arg \in Alphabetic
        /\ tokens' = Append(tokens, ret')
        /\ state' = "ReadExec"
        /\ data'.back = <<>>
        /\ Consumed' = Consumed + 2
        /\ ret.text \o <<"%", ret'.arg>>
               = SubSeq(input, Consumed - Len(ret.text) + 1, Consumed')

C7_PlaceholderAfterText == [][C7_RunEndsBeforePercent /\ C7_ThenArgument]_vars

C7_Witness ==
    /\ state = "ReadExec" /\ ret.kind = "Argument" /\ ret.arg = "f"
    /\ Len(tokens) >= 2
    /\ tokens[Len(tokens) - 1].kind = "Text"
    /\ tokens[Len(tokens) - 1].text = <<"f", "%">>

(***************************************************************************)
(* C8.  read_text stops before the first delimiter of the lexer state and  *)
(* the buffer holds exactly the characters before it: `[`, `]`, `=` in     *)
(* ReadKey, `]` in ReadHeader, `;` in ReadValue, and a line break or `#`   *)
(* in every state.  The delimiters of another state are ordinary text.     *)
(***************************************************************************)
Delimiters(st) ==
    RunEnders \cup
        CASE st = "ReadKey" -> {"[", "]", "="}
          [] st = "ReadHeader" -> {"]"}
          [] st = "ReadValue" -> {";"}
          [] OTHER -> {}

\* the index of the first delimiter of state st at or behind input[i],
\* Len(input) + 1 when there is none
FirstDelimiter(i, st) ==
    LET S == {k \in i..Len(input) : input[k] \in Delimiters(st)}
    IN  IF S = {} THEN Len(input) + 1
        ELSE CHOOSE k \in S : \A m \in S : k <= m

C8_RunStopsAtDelimiter ==
    /\ (ret'.kind = "Text" /\ state # "ReadExec") =>
          LET stop == FirstDelimiter(Consumed + 1, state)
          IN  /\ Consumed' = stop - 1
              /\ ret'.text = SubSeq(input, Consumed + 1, stop - 1)
              /\ buf' = ret'.text
              /\ TokenData_peek(data') =
                     IF stop <= Len(input) THEN input[stop] ELSE None
    /\ (ret'.kind = "Text" /\ state = "ReadExec") =>
          /\ ret'.text =
                 SubSeq(input, Consumed + 1, Consumed + Len(ret'.text))
          /\ buf' = ret'.text
          /\ Consumed' <= FirstDelimiter(Consumed + 1, state) - 1

C8_ReadTextDelimiters == [][C8_RunStopsAtDelimiter]_vars

C8_Witness ==
    /\ state = "ReadValue" /\ ret.kind = "Text"
    /\ ret.text = <<"[", "]", "=">>

(***************************************************************************)
(* C9.  `[` met in ReadKey returns exactly one LeftBracket and moves to    *)
(* ReadHeader; `]` met in ReadHeader returns exactly one RightBracket and  *)
(* moves back to ReadKey.  Hence `[name]` tokenizes to LeftBracket,        *)
(* Text(name), RightBracket and ends in ReadKey, and `key[loc]` to         *)
(* Text(key), LeftBracket, Text(loc), RightBracket.                        *)
(***************************************************************************)
\* the kinds and texts of a token sequence
Shape(ts) == [i \in 1..Len(ts) |-> <<ts[i].kind, ts[i].text>>]

\* s is a text that state st scans as one whole run
IsRun(s, st) ==
    /\ s # <<>>
    /\ s[1] \notin Blank
    /\ \A i \in 1..Len(s) : s[i] \notin Delimiters(st)

C9_Brackets ==
    /\ (Peeked = "[" /\ state = "ReadKey") =>
            (ReturnsOne("LeftBracket") /\ state' = "ReadHeader")
    /\ (Peeked = "]" /\ state = "ReadHeader") =>
            (ReturnsOne("RightBracket") /\ state' = "ReadKey")

\* the input is `[name]`
C9_Header ==
    LET n == Len(input)
        name == SubSeq(input, 2, n - 1)
    IN  (n >= 3 /\ input[1] = "[" /\ input[n] = "]"
              /\ IsRun(name, "ReadHeader")) =>
            /\ Shape(tokens') = << <<"LeftBracket", <<>> >>, <<"Text", name>>,
                                   <<"RightBracket", <<>> >> >>
            /\ state' = "ReadKey"

\* the input is `key[loc]`
C9_Locale ==
    \A k \in 2..(Len(input) - 2) :
        LET n == Len(input)
            key == SubSeq(input, 1, k - 1)
            loc == SubSeq(input, k + 1, n - 1)
        IN  (input[k] = "[" /\ input[n] = "]" /\ IsRun(key, "ReadKey")
                  /\ IsRun(loc, "ReadHeader")) =>
                /\ Shape(tokens') = << <<"Text", key>>, <<"LeftBracket", <<>> >>,
                                       <<"Text", loc>>, <<"RightBracket", <<>> >> >>
                /\ state' = "ReadKey"

C9_BracketTransitions ==
    [][C9_Brackets /\ (done' => (C9_Header /\ C9_Locale))]_vars

C9_Witness ==
    /\ done /\ state = "ReadKey"
    /\ Shape(tokens) = << <<"Text", <<"f">> >>, <<"LeftBracket", <<>> >>,
                          <<"Text", <<"f">> >>, <<"RightBracket", <<>> >> >>

(***************************************************************************)
(* C10.  In ReadValue every `;` the lexer meets returns exactly one        *)
(* Semicolon and leaves the state ReadValue, so `key=v1;v2;...;vn` (key    *)
(* not "Exec", segments without delimiters) tokenizes to Text(key),        *)
(* Equal, Text(v1), Semicolon, ..., Semicolon, Text(vn).  A `;` met in     *)
(* ReadKey, ReadHeader or ReadExec (peeked by next_token, or scanned       *)
(* inside a text run) is never a Semicolon token but part of the Text      *)
(* token.                                                                  *)
(***************************************************************************)
HasSemicolon(v) == \E i \in 1..Len(v) : v[i] = ";"

FirstSemicolon(v) ==
    CHOOSE i \in 1..Len(v) : v[i] = ";" /\ \A j \in 1..(i - 1) : v[j] # ";"

\* v is v1;v2;...;vn, each segment a text that ReadValue scans as one run
RECURSIVE IsList(_)
IsList(v) ==
    IF HasSemicolon(v)
    THEN /\ IsRun(SubSeq(v, 1, FirstSemicolon(v) - 1), "ReadValue")
         /\ IsList(SubSeq(v, FirstSemicolon(v) + 1, Len(v)))
    ELSE IsRun(v, "ReadValue")

\* Text(v1), Semicolon, ..., Semicolon, Text(vn)
RECURSIVE ListShape(_)
ListShape(v) ==
    IF HasSemicolon(v)
    THEN << <<"Text", SubSeq(v, 1, FirstSemicolon(v) - 1)>>,
            <<"Semicolon", <<>> >> >>
             \o ListShape(SubSeq(v, FirstSemicolon(v) + 1, Len(v)))
    ELSE << <<"Text", v>> >>

C10_Semicolons ==
    /\ (Peeked = ";" /\ state = "ReadValue") =>
            (ReturnsOne("Semicolon") /\ state' = "ReadValue")
    /\ ret'.kind = "Semicolon" => (Peeked = ";" /\ state = "ReadValue")
    /\ (Peeked = ";" /\ state # "ReadValue") =>
            (ret'.kind = "Text" /\ ret'.text[1] = ";")
    /\ (ret'.kind = "Text" /\ state # "ReadValue") =>
            ret'.text = SubSeq(input, Consumed + 1, Consumed')

\* the input is `key=v1;...;vn`
C10_ListLine ==
    \A k \in 2..(Len(input) - 1) :
        LET key == SubSeq(input, 1, k - 1)
            v == SubSeq(input, k + 1, Len(input))
        IN  (input[k] = "=" /\ IsRun(key, "ReadKey") /\ key # StrExec
                  /\ IsList(v)) =>
                Shape(tokens') =
                    << <<"Text", key>>, <<"Equal", <<>> >> >> \o ListShape(v)

C10_SemicolonTokens == [][C10_Semicolons /\ (done' => C10_ListLine)]_vars

C10_Witness ==
    /\ done /\ state = "ReadValue"
    /\ Shape(tokens) = << <<"Text", <<"f">> >>, <<"Equal", <<>> >>,
                          <<"Text", <<"f">> >>, <<"Semicolon", <<>> >>,
                          <<"Text", <<"f">> >> >>

(***************************************************************************)
(* C11.  In ReadKey, ReadHeader and ReadValue a space or tab that is the   *)
(* next character is skipped together with the spaces and tabs behind it:  *)
(* the step returns no token, keeps the state and consumes blanks only,    *)
(* up to the first character that is not one; so no Text token returned in *)
(* these states begins with a space or tab.  In ReadExec a space or tab    *)
(* that is the next character is not skipped: the step returns a Text      *)
(* token that begins with it, and every Text token is the run of the       *)
(* input as it stands, blanks included.                                    *)
(***************************************************************************)
C11_SkippedOutsideExec ==
    (Peeked \in Blank /\ state # "ReadExec") =>
        /\ ret'.kind = "Continue"
        /\ tokens' = tokens
        /\ state' = state
        /\ Consumed' > Consumed
        /\ \A i \in (Consumed + 1)..Consumed' : input[i] \in {" ", "\t"}
        /\ TokenData_peek(data') \notin {" ", "\t"}
        /\ data'.pos = PosAdd(data.pos, Consumed' - Consumed)

C11_NoLeadingBlank ==
    (ret'.kind = "Text" /\ state # "ReadExec" /\ ret'.text # <<>>) =>
        ret'.text[1] \notin {" ", "\t"}

C11_KeptInExec ==
    /\ (Peeked \in {" ", "\t"} /\ state = "ReadExec") =>
            /\ ret'.kind = "Text"
            /\ ret'.text[1] = Peeked
            /\ state' = "ReadExec"
    /\ ret'.kind = "Text" =>
            ret'.text = SubSeq(input, Consumed + 1, Consumed')

C11_Whitespace ==
    [][C11_SkippedOutsideExec /\ C11_NoLeadingBlank /\ C11_KeptInExec]_vars

\* `Exec=` then a tab, a space and a letter: one Text with both blanks; and
\* a run in which blanks were skipped in ReadValue before a Text
C11_Witness ==
    \/ /\ state = "ReadExec" /\ ret.kind = "Text"
       /\ ret.text = <<"\t", " ", "f">>
    \/ /\ state = "ReadValue" /\ ret.kind = "Text" /\ ret.text = <<"f">>
       /\ Consumed = Len(input) /\ Len(input) = 5
       /\ input[3] = "\t" /\ input[4] = " "

(***************************************************************************)
(* C12.  A `#` the lexer meets (as the next character of next_token, in    *)
(* whatever state, or as the character that ends a text run) starts a      *)
(* comment: the step consumes the `#` and everything up to the line        *)
(* terminator or the end of input, returns no token, and no token holds a  *)
(* `#` or a character of the comment.  The same step handles the           *)
(* terminator as a line break (`\n`, `\r\n` or a lone `\r`: row one more,  *)
(* col 0, state ReadKey); a comment that runs to the end of input leaves   *)
(* the state as it was.                                                    *)
(***************************************************************************)
\* the index of the first line break character at or behind input[i],
\* Len(input) + 1 when there is none
FirstLineBreak(i) ==
    LET S == {k \in i..Len(input) : IsLineBreak(input[k])}
    IN  IF S = {} THEN Len(input) + 1
        ELSE CHOOSE k \in S : \A m \in S : k <= m

\* the index of the last character of the line terminator that begins at
\* input[e]
TerminatorEnd(e) ==
    IF input[e] = "\r" /\ e < Len(input) /\ input[e + 1] = "\n" THEN e + 1
    ELSE e

C12_CommentStep ==
    Peeked = "#" =>
        LET e == FirstLineBreak(Consumed + 1)
        IN  /\ input[Consumed + 1] = "#"
            /\ ret'.kind = "Continue"
            /\ tokens' = tokens
            /\ IF e <= Len(input)
               THEN /\ Consumed' = TerminatorEnd(e)
                    /\ state' = "ReadKey"
                    /\ data'.pos.row = data.pos.row + 1
                    /\ data'.pos.col = 0
               ELSE /\ Consumed' = Len(input)
                    /\ state' = state
                    /\ data'.pos = PosAdd(data.pos, Len(input) - Consumed)

\* a Text token is made of the characters its own step consumed, and a run
\* never goes past a `#`
C12_NoTokenFromComment ==
    /\ ret'.kind = "Text" =>
            /\ ret'.text = SubSeq(input, Consumed + 1, Consumed')
            /\ \A i \in 1..Len(ret'.text) : ret'.text[i] # "#"
    /\ (ret'.kind = "Text" /\ Consumed' < Len(input)
            /\ input[Consumed' + 1] = "#") => TokenData_peek(data') = "#"

C12_Comments == [][C12_CommentStep /\ C12_NoTokenFromComment]_vars

\* `f=#f` and a line feed: the comment met in ReadValue is gone, the line
\* break behind it has been handled
C12_Witness ==
    /\ ret.kind = "Continue" /\ state = "ReadKey"
    /\ Len(input) = 5 /\ Consumed = 5
    /\ input[3] = "#" /\ input[4] = "f" /\ input[5] = "\n"
    /\ data.pos.row = 1 /\ data.pos.col = 0
    /\ Len(tokens) = 2

(***************************************************************************)
(* C13.  Every Span has start <= end, whatever sequence of Span::new,      *)
(* Span::start, `+ n`, `- n` and finish produced it: an operation that     *)
(* would give an inverted span panics instead of yielding it.              *)
(***************************************************************************)
C13_SpanNeverInverted == ~PosGreater(sp.start, sp.end)

(***************************************************************************)
(* C14.  On every input, well-formed or not, the lexer reaches no fatal    *)
(* condition: no token it returns has an inverted span (start > end), and  *)
(* no push has subtracted from a position whose col or idx was 0.          *)
(***************************************************************************)
SpanInverted(s) == PosGreater(s.start, s.end) \/ ~PosLeq(s.start, s.end)

C14_NoFatalCondition ==
    /\ ~data.fault
    /\ ~SpanInverted(ret.span)
    /\ \A i \in 1..Len(tokens) : ~SpanInverted(tokens[i].span)

\* `f`, a lone `\r`, then a `]` that opens nothing: the `]` has been pushed
\* back by advance_line, behind a Text token
C14_Witness ==
    /\ ~data.fault
    /\ data.back = <<"]">> /\ data.pos.row = 1 /\ data.pos.col = 0
    /\ Len(tokens) = 1 /\ tokens[1].kind = "Text" /\ tokens[1].text = <<"f">>
    /\ ~SpanInverted(tokens[1].span)

(***************************************************************************)
(* C15.  The span of every Text token starts at the first character of     *)
(* its text and ends just behind its last one: start.idx is the offset of  *)
(* the first character in the input, start and end are on the same row,    *)
(* and end.col - start.col (as end.idx - start.idx) is the number of       *)
(* characters of the text; also for a Text behind skipped blanks,          *)
(* comments and line breaks, and for one whose run ended on a `%` that     *)
(* was pushed back.                                                        *)
(***************************************************************************)
TextSpanFits(t) ==
    /\ t.span.start.row = t.span.end.row
    /\ t.span.end.col - t.span.start.col = Len(t.text)
    /\ t.span.end.idx - t.span.start.idx = Len(t.text)
    /\ t.span.start.idx >= 0 /\ t.span.end.idx <= Len(input)
    /\ t.text = SubSeq(input, t.span.start.idx + 1, t.span.end.idx)

C15_TextSpan ==
    /\ ret.kind = "Text" => TextSpanFits(ret)
    /\ \A i \in 1..Len(tokens) : tokens[i].kind = "Text" => TextSpanFits(tokens[i])

\* a line feed, a blank and `f`: the Text stands on the second line behind
\* the skipped blank
C15_Witness ==
    /\ ret.kind = "Text" /\ ret.text = <<"f">>
    /\ input = <<"\n", " ", "f">>
    /\ ret.span.start = [row |-> 1, col |-> 1, idx |-> 2]
    /\ ret.span.end = [row |-> 1, col |-> 2, idx |-> 3]

(***************************************************************************)
(* C16.  Parser::parse on a text whose first token is not a LeftBracket    *)
(* (such as `f=f`) returns the error ExpectedHeader with the span of that  *)
(* token, and no document.                                                 *)
(***************************************************************************)
C16_ExpectedHeader ==
    (parsed # NotCalled /\ Len(tokens) >= 1 /\ tokens[1].kind # "LeftBracket") =>
        /\ parsed.kind = "ExpectedHeader"
        /\ parsed.span = tokens[1].span

(***************************************************************************)
(* C17.  For an entry whose key is not "Exec", a value run with at least   *)
(* one Semicolon gives List(segments), each segment the concatenation of   *)
(* the Text tokens between two separators, the empty segment behind a      *)
(* final Semicolon dropped; a run without a Semicolon gives Simple of the  *)
(* concatenation of its Text tokens.                                       *)
(***************************************************************************)
C17_ListOrSimple ==
    (value # NoValue /\ tokens[1].text # StrExec) =>
        LET run == ValueRun(tokens)
        IN  IF HasSemicolonToken(run)
            THEN /\ value.kind = "List"
                 /\ value.items = Segments(run, <<>>, FALSE)
            ELSE /\ value.kind = "Simple"
                 /\ value.text = ConcatText(run)

(***************************************************************************)
(* C18.  For an entry whose key is "Exec" the value is Exec(parts) with    *)
(* one part for each Text or Argument token of the value run, in the       *)
(* order of the tokens: Literal(s) for Text(s), and for Argument(c) the    *)
(* placeholder part of c (ValuePart::Parameter in tree.rs).                *)
(***************************************************************************)
IsPartToken(t) == t.kind \in {"Text", "Argument"}

RECURSIVE Reverse(_)
Reverse(s) == IF s = <<>> THEN <<>> ELSE Reverse(Tail(s)) \o <<Head(s)>>

ToDeliver(d) == Reverse(d.back) \o SubSeq(input, d.di + 1, Len(input))

C19_PushUndoesNext ==
    LET c == TokenData_peek(data)
        d1 == TokenData_next(data)
        d2 == TokenData_push(d1, c)
        d3 == TokenData_next(d2)
    IN  /\ c # None =>
              /\ d1.pos = PosAdd(data.pos, 1)
              /\ d2.pos = data.pos
              /\ ~d2.fault
              /\ TokenData_peek(d2) = c
              /\ d3.pos = d1.pos
              /\ ToDeliver(d2) = ToDeliver(data)
              /\ ToDeliver(d3) = ToDeliver(d1)
              /\ ToDeliver(d1) = Tail(ToDeliver(data))
        /\ ToDeliver(data) = SubSeq(input, Consumed + 1, Len(input))
        /\ data.pos.idx = Consumed

\* a `%` that read_text pushed back is the next character, behind the
\* characters of `Exec=` and a text run
C19_Witness ==
    /\ data.back = <<"%">> /\ TokenData_peek(data) = "%"
    /\ data.pos.col >= 6
    /\ TokenData_push(TokenData_next(data), "%").pos = data.pos

(***************************************************************************)
(* C20.  In every state of a lexer run driven through next_token the       *)
(* pushback buffer holds at most one character: between two steps, and     *)
(* inside a step, where no push finds a character already in the buffer.   *)
(***************************************************************************)
C20_OnePushback == Len(data.back) <= 1 /\ ~data.deep

\* a pushed-back character is waiting after a step that pushed twice in a
\* row: a comment ended by a lone `\r` (skip_comment pushes the `\r`,
\* advance_line the character behind it)
C20_Witness ==
    /\ Len(data.back) = 1 /\ ~data.deep
    /\ data.pos.row = 1 /\ data.pos.col = 0
    /\ Consumed >= 2 /\ input[Consumed] = "\r" /\ input[Consumed - 1] = "#"

(***************************************************************************)
(* C21.  The scan position never goes back: ordered by row, then col, the  *)
(* position behind every step of next_token is at or behind the position   *)
(* before it, and the span starts of the tokens returned one after         *)
(* another never decrease.  A push is undone within its own step: it       *)
(* never underflows, never leaves the position before the start of the     *)
(* Text being scanned, and a step that consumes no line break stays on     *)
(* its row.                                                                *)
(***************************************************************************)
C21_StepForward ==
    /\ PosLeq(data.pos, data'.pos)
    /\ ~data'.fault
    /\ ~ConsumesLineBreak => data'.pos.row = data.pos.row
    /\ ret'.kind = "Text" =>
          /\ ret'.span.start = data.pos
          /\ PosLeq(ret'.span.start, data'.pos)
    /\ (ret'.kind \notin {"Continue", "None"} /\ Len(tokens) >= 1
            /\ tokens' = Append(tokens, ret')) =>
          PosLeq(tokens[Len(tokens)].span.start, ret'.span.start)

C21_PositionMonotone == [][C21_StepForward]_vars

\* `f`, a lone `\r`, `f`: the second Text starts on the next row, behind a
\* step that pushed back and then went to a new line
C21_Witness ==
    /\ input = <<"f", "\r", "f">>
    /\ Len(tokens) = 2
    /\ tokens[1].span.start = [row |-> 0, col |-> 0, idx |-> 0]
    /\ tokens[2].span.start = [row |-> 1, col |-> 0, idx |-> 2]

(***************************************************************************)
(* C22.  The span of a LeftBracket, RightBracket, Equal or Semicolon       *)
(* token starts at the position of its character and ends one column      *)
(* behind it; the span of an Argument token covers its `%` and the         *)
(* character behind it; so of two tokens returned one after the other on   *)
(* one row the first ends at or before the start of the second.            *)
(***************************************************************************)
StructuralKinds == {"LeftBracket", "RightBracket", "Equal", "Semicolon"}

C22_SpanOfStep ==
    /\ ret'.kind \in StructuralKinds =>
          /\ ret'.span.start = data.pos
          /\ ret'.span.end = PosAdd(data.pos, 1)
    /\ ret'.kind = "Argument" =>
          /\ ret'.span.start = data.pos
          /\ ret'.span.end = PosAdd(data.pos, Consumed' - Consumed)
    /\ (ret'.kind \notin {"Continue", "None"} /\ Len(tokens) >= 1
            /\ tokens' = Append(tokens, ret')
            /\ tokens[Len(tokens)].span.end.row = ret'.span.start.row) =>
          PosLeq(tokens[Len(tokens)].span.end, ret'.span.start)

C22_StructuralSpans == [][C22_SpanOfStep]_vars

(***************************************************************************)
(* C23.  A step of next_token that returns a token has consumed at least   *)
(* one character of the input, and a Text token never has the empty text.  *)
(***************************************************************************)
C23_TokenConsumes ==
    ret'.kind \notin {"Continue", "None"} =>
        /\ Consumed' > Consumed
        /\ ret'.kind = "Text" => ret'.text # <<>>

C23_NoEmptyText == [][C23_TokenConsumes]_vars

(***************************************************************************)
(* C24.  The value of an entry is scanned in ReadExec exactly when the     *)
(* key of the entry, the first Text token of its line, is "Exec", with or  *)
(* without a locale qualifier before the `=`: behind `Exec[f]=` the state  *)
(* is ReadExec, behind `f[Exec]=` it is ReadValue.                         *)
(***************************************************************************)
\* the text of the first Text token of ts on the given row, <<>> without one
FirstTextOnRow(ts, row) ==
    LET S == {i \in 1..Len(ts) :
                 ts[i].kind = "Text" /\ ts[i].span.start.row = row}
    IN  IF S = {} THEN <<>>
        ELSE ts[CHOOSE i \in S : \A j \in S : i <= j].text

C24_KeyDecides ==
    ret'.kind = "Equal" =>
        (state' = "ReadExec" <=> FirstTextOnRow(tokens, data.pos.row) = StrExec)

C24_ExecByKey == [][C24_KeyDecides]_vars

(***************************************************************************)
(* C25.  pos.idx is an absolute offset: at every point of the scan it is   *)
(* the byte offset, in the UTF-8 text, of the next character to consume,   *)
(* also behind characters of more than one byte and behind line breaks     *)
(* (newline() leaves it alone); on ASCII text it is the number of          *)
(* characters consumed.                                                    *)
(***************************************************************************)
\* the number of bytes of the first n characters of the input
RECURSIVE ByteOffset(_)
ByteOffset(n) == IF n = 0 THEN 0 ELSE ByteOffset(n - 1) + len_utf8(input[n])

C25_IdxIsByteOffset == data.pos.idx = ByteOffset(Consumed)

====
